---- MODULE Spec2Model ----
(***************************************************************************)
(* ndjson: formats and colorizes newline delimited JSON (src/main.rs).     *)
(*                                                                         *)
(* The model has two specifications over the same variables:               *)
(*   Spec        the program: main, its line loop, write_line and the      *)
(*               renderer driving the ColoredWriter, one writer call per   *)
(*               step, every sink operation allowed to fail;               *)
(*   SpecWriter  the ColoredWriter alone under every sequence of set_kind  *)
(*               and write calls.                                          *)
(* Texts are TLA+ strings; the bytes of an output are the concatenation of *)
(* the texts written to the sink.                                          *)
(***************************************************************************)
EXTENDS Integers, Sequences, FiniteSets, TLC

VARIABLES
    kind,       \* ColoredWriter.kind
    deferred,   \* ColoredWriter.deferred
    applied,    \* the sink: kind whose control sequence was last applied
    out,        \* log of writer calls and sink operations (per line in Spec)
    pc,         \* position of main
    line,       \* the line being written (sequence of lexemes)
    calls,      \* writer calls write_line still has to make for the line
    nlines,     \* lines read so far
    stdinTty,   \* atty::is(Stdin)
    stdoutTty   \* atty::is(Stdout)

vars == <<kind, deferred, applied, out, pc, line, calls, nlines, stdinTty, stdoutTty>>

\* Bounds of the model.
MaxLines == 2     \* lines read by one run of main
MaxNodes == 3     \* JSON values of up to this many nodes are enumerated
MaxOps   == 6     \* writer calls in one run of SpecWriter

(***************************************************************************)
(* TokenKind and the ColoredWriter                                         *)
(***************************************************************************)
TokenKind == {"None", "Key", "Value", "String"}

\* One entry of the log. ev is
\*   "line"     write_line starts; kind = colour applied on the sink, text = the line
\*   "set_kind" call of set_kind(kind)
\*   "write"    call of write(text); kind = the writer's kind at the call
\*   "color"    sink: control sequence of kind emitted (reset for None)
\*   "text"     sink: text written; kind = colour applied on the sink meanwhile
\*   "err"      sink: the operation failed; text = "color" or "text", the
\*              operation of write that failed
\*   "help"     main printed the usage;  "copy"  io::copy wrote text
Ev(e, k, t) == [ev |-> e, kind |-> k, text |-> t]

\* ColoredWriter::new
new == [kind |-> "None", deferred |-> FALSE]

\* set_kind leaving nothing pending for None, as if None needed no reset
set_kind_NoResetPending(w, k) ==
    IF w.kind # k THEN [kind |-> k, deferred |-> k # "None"] ELSE w

\* ColoredWriter::set_kind on writer state w
set_kind(w, k) ==
    IF w.kind # k THEN [kind |-> k, deferred |-> TRUE] ELSE w

\* The outcomes the sink allows for write(s) in writer state w:
\*   "ok", "color" (reset/set_color fails), "text" (write_all fails)
Failures(w, s) ==
    IF s = "" THEN {"ok"}
    ELSE IF w.deferred THEN {"ok", "color", "text"} ELSE {"ok", "text"}

\* the colours of Value and String taken for each other
ColorOf_Swapped(k) ==
    CASE k = "None"   -> "reset"
      [] k = "Key"    -> "intense yellow"
      [] k = "Value"  -> "intense cyan"
      [] k = "String" -> "intense green"

\* The match of TokenKind to the control sequence: reset, or
\* ColorSpec::new().set_fg(Some(color)).set_intense(true)
ColorOf(k) ==
    CASE k = "None"   -> "reset"
      [] k = "Key"    -> "intense yellow"
      [] k = "Value"  -> "intense green"
      [] k = "String" -> "intense cyan"

\* write clearing deferred before the result of the control sequence is looked at
write_all_ClearsOnError(w, a, s, f) ==
    IF w.deferred /\ f = "color" THEN
        [w |-> [w EXCEPT !.deferred = FALSE], applied |-> a,
         events |-> <<Ev("err", w.kind, "color")>>, res |-> "err"]
    ELSE
        LET a2 == IF w.deferred THEN w.kind ELSE a
            w2 == [w EXCEPT !.deferred = FALSE]
            pre == IF w.deferred THEN <<Ev("color", w.kind, ColorOf(w.kind))>> ELSE <<>>
        IN  IF f = "text"
            THEN [w |-> w2, applied |-> a2,
                  events |-> pre \o <<Ev("err", a2, "text")>>, res |-> "err"]
            ELSE [w |-> w2, applied |-> a2,
                  events |-> pre \o <<Ev("text", a2, s)>>, res |-> "ok"]

\* ColoredWriter::write, lines 132-147: the text is not empty.  The pending
\* control sequence is emitted first, then the text is written.
write_all(w, a, s, f) ==
    IF w.deferred /\ f = "color" THEN
        [w |-> w, applied |-> a, events |-> <<Ev("err", w.kind, "color")>>, res |-> "err"]
    ELSE
        LET flush == w.deferred
            a2    == IF flush THEN w.kind ELSE a
            w2    == [w EXCEPT !.deferred = FALSE]
            pre   == IF flush THEN <<Ev("color", w.kind, ColorOf(w.kind))>> ELSE <<>>
        IN  IF f = "text"
            THEN [w |-> w2, applied |-> a2,
                  events |-> pre \o <<Ev("err", a2, "text")>>, res |-> "err"]
            ELSE [w |-> w2, applied |-> a2,
                  events |-> pre \o <<Ev("text", a2, s)>>, res |-> "ok"]

\* write with a zero-length text consuming the pending kind change
write_EmptyClears(w, a, s, f) ==
    IF s = ""
    THEN [w |-> [w EXCEPT !.deferred = FALSE], applied |-> a, events |-> <<>>, res |-> "ok"]
    ELSE write_all(w, a, s, f)

\* write flushing the pending kind change before it looks at the text
write_EmptyFlushes(w, a, s, f) ==
    IF s = "" /\ w.deferred
    THEN [w |-> [w EXCEPT !.deferred = FALSE], applied |-> w.kind,
          events |-> <<Ev("color", w.kind, ColorOf(w.kind))>>, res |-> "ok"]
    ELSE IF s = "" THEN [w |-> w, applied |-> a, events |-> <<>>, res |-> "ok"]
    ELSE write_all(w, a, s, f)

\* write emitting its control sequence before every text
write_AlwaysFlushes(w, a, s, f) ==
    IF s = "" THEN [w |-> w, applied |-> a, events |-> <<>>, res |-> "ok"]
    ELSE write_all([w EXCEPT !.deferred = TRUE], a, s, f)

\* ColoredWriter::write(s) in writer state w with sink colour a and sink
\* outcome f: the new writer state, sink colour, sink operations and result.
write(w, a, s, f) ==
    IF s = "" THEN
        [w |-> w, applied |-> a, events |-> <<>>, res |-> "ok"]
    ELSE write_all(w, a, s, f)

Writer == [kind |-> kind, deferred |-> deferred]

\* set_kind emitting the control sequence at once
DoSetKind_Eager(k) ==
    /\ kind' = k
    /\ deferred' = FALSE
    /\ applied' = k
    /\ out' = out \o <<Ev("set_kind", k, ""), Ev("color", k, ColorOf(k))>>

\* A call of set_kind(k) on the writer
DoSetKind(k) ==
    /\ kind' = set_kind(Writer, k).kind
    /\ deferred' = set_kind(Writer, k).deferred
    /\ out' = Append(out, Ev("set_kind", k, ""))
    /\ UNCHANGED applied

\* A call of write(s) on the writer with sink outcome f
DoWrite(s, f) ==
    LET r == write(Writer, applied, s, f)
    IN  /\ kind' = r.w.kind
        /\ deferred' = r.w.deferred
        /\ applied' = r.applied
        /\ out' = Append(out, Ev("write", kind, s)) \o r.events

(***************************************************************************)
(* SpecWriter: the ColoredWriter under every sequence of calls             *)
(***************************************************************************)
Texts == {"", "a"}

IsCall(e) == e.ev \in {"set_kind", "write"}

NCalls(log) == Cardinality({i \in 1..Len(log) : IsCall(log[i])})

InitWriter ==
    /\ kind = new.kind
    /\ deferred = new.deferred
    /\ applied = "None"
    /\ out = <<>>
    /\ pc = "api"
    /\ line = <<>>
    /\ calls = <<>>
    /\ nlines = 0
    /\ stdinTty = FALSE
    /\ stdoutTty = TRUE

ApiSetKind ==
    /\ pc = "api"
    /\ NCalls(out) < MaxOps
    /\ \E k \in TokenKind : DoSetKind(k)
    /\ UNCHANGED <<pc, line, calls, nlines, stdinTty, stdoutTty>>

ApiWrite ==
    /\ pc = "api"
    /\ NCalls(out) < MaxOps
    /\ \E s \in Texts : \E f \in Failures(Writer, s) : DoWrite(s, f)
    /\ UNCHANGED <<pc, line, calls, nlines, stdinTty, stdoutTty>>

NextWriter == ApiSetKind \/ ApiWrite

SpecWriter == InitWriter /\ [][NextWriter]_vars

(***************************************************************************)
(* Lines and serde_json::from_str                                          *)
(*                                                                         *)
(* A line is a sequence of lexemes; its text is their concatenation.  The  *)
(* parser works on the lexemes, the writer gets the text.                  *)
(***************************************************************************)
RECURSIVE Concat(_)
Concat(ts) == IF ts = <<>> THEN "" ELSE Head(ts) \o Concat(Tail(ts))

\* The text of a line
LineText(l) == Concat(l)

KeyLex    == {"\"\"", "\"k\""}              \* lexemes used as object keys
ScalarLex == {"1e2", "\"\"", "\"v\""}       \* lexemes used as scalar values
StringLex == {"\"\"", "\"k\"", "\"v\""}     \* the string lexemes
LiteralLex == {"1e2", "0", "null", "true"} \* numbers, booleans, null

\* The content of a string lexeme
Unquote(lex) ==
    CASE lex = "\"\""  -> ""
      [] lex = "\"k\"" -> "k"
      [] lex = "\"v\"" -> "v"

\* Value::to_string of the value a number, boolean or null lexeme parses to
\* (tests::test_numbers: 1e2 is written 100.0)
to_string(lex) ==
    CASE lex = "1e2"  -> "100.0"
      [] lex = "0"    -> "0"
      [] lex = "null" -> "null"
      [] lex = "true" -> "true"

\* serde_json::Value
VString(s)  == [t |-> "String", s |-> s]
VScalar(x)  == [t |-> "Scalar", text |-> x]
VArray(xs)  == [t |-> "Array", items |-> xs]
VObject(ps) == [t |-> "Object", pairs |-> ps]

\* Map::insert (insertion order is kept; a repeated key replaces the value in place)
MapInsert(ps, k, v) ==
    IF \E i \in 1..Len(ps) : ps[i].key = k
    THEN [i \in 1..Len(ps) |-> IF ps[i].key = k THEN [key |-> k, value |-> v] ELSE ps[i]]
    ELSE Append(ps, [key |-> k, value |-> v])

RECURSIVE SkipWs(_)
SkipWs(ts) == IF ts # <<>> /\ Head(ts) = " " THEN SkipWs(Tail(ts)) ELSE ts

ParseErr == [ok |-> FALSE]
ParseOk(v, rest) == [ok |-> TRUE, val |-> v, rest |-> rest]

RECURSIVE ParseValue(_), ParseElems(_, _), ParsePairs(_, _)
\* one JSON value at the head of ts
ParseValue(ts0) ==
    LET ts == SkipWs(ts0)
    IN  IF ts = <<>> THEN ParseErr
        ELSE LET h == Head(ts)  r == Tail(ts)
             IN  CASE h \in StringLex  -> ParseOk(VString(Unquote(h)), r)
                   [] h \in LiteralLex -> ParseOk(VScalar(to_string(h)), r)
                   [] h = "[" ->
                        IF SkipWs(r) # <<>> /\ Head(SkipWs(r)) = "]"
                        THEN ParseOk(VArray(<<>>), Tail(SkipWs(r)))
                        ELSE ParseElems(r, <<>>)
                   [] h = "{" ->
                        IF SkipWs(r) # <<>> /\ Head(SkipWs(r)) = "}"
                        THEN ParseOk(VObject(<<>>), Tail(SkipWs(r)))
                        ELSE ParsePairs(r, <<>>)
                   [] OTHER -> ParseErr
\* the elements of an array after "[" or ",": a value, then "," or "]"
ParseElems(ts, acc) ==
    LET e == ParseValue(ts)
    IN  IF ~e.ok THEN ParseErr
        ELSE LET r == SkipWs(e.rest)
                 xs == Append(acc, e.val)
             IN  IF r = <<>> THEN ParseErr
                 ELSE IF Head(r) = "," THEN ParseElems(Tail(r), xs)
                 ELSE IF Head(r) = "]" THEN ParseOk(VArray(xs), Tail(r))
                 ELSE ParseErr
\* the members of an object after "{" or ",": key ":" value, then "," or "}"
ParsePairs(ts0, acc) ==
    LET ts == SkipWs(ts0)
    IN  IF ts = <<>> \/ Head(ts) \notin StringLex THEN ParseErr
        ELSE LET c == SkipWs(Tail(ts))
             IN  IF c = <<>> \/ Head(c) # ":" THEN ParseErr
                 ELSE LET e == ParseValue(Tail(c))
                      IN  IF ~e.ok THEN ParseErr
                          ELSE LET r  == SkipWs(e.rest)
                                   ps == MapInsert(acc, Unquote(Head(ts)), e.val)
                               IN  IF r = <<>> THEN ParseErr
                                   ELSE IF Head(r) = "," THEN ParsePairs(Tail(r), ps)
                                   ELSE IF Head(r) = "}" THEN ParseOk(VObject(ps), Tail(r))
                                   ELSE ParseErr

\* serde_json::from_str(line): the whole line is one document, or an error
from_str(l) ==
    LET r == ParseValue(l)
    IN  IF r.ok /\ SkipWs(r.rest) = <<>> THEN r.val ELSE [t |-> "Err"]

(***************************************************************************)
(* The renderer: the writer calls of write_line, write_value, write_object *)
(***************************************************************************)
CallSetKindOf(k) == <<[op |-> "set_kind", arg |-> k]>>
CallWriteOf(s)   == <<[op |-> "write", arg |-> s]>>
\* writer.set_kind(k).write(s)
SetWrite(k, s) == CallSetKindOf(k) \o CallWriteOf(s)

RECURSIVE write_value(_), write_object(_), ArrayItems(_, _), ObjectPairs(_, _)
\* write_value writing a string in the kind of the other scalars
write_value_StringAsValue(v) ==
    CASE v.t = "String" -> SetWrite("Value", v.s)
      [] v.t = "Array"  ->
            SetWrite("None", "[") \o ArrayItems(v.items, 1) \o SetWrite("None", "]")
      [] v.t = "Object" ->
            IF v.pairs = <<>>
            THEN SetWrite("None", "{}")
            ELSE SetWrite("None", "{ ") \o write_object(v.pairs) \o SetWrite("None", " }")
      [] OTHER -> SetWrite("Value", v.text)

write_value(v) ==
    CASE v.t = "String" -> SetWrite("String", v.s)
      [] v.t = "Array"  ->
            SetWrite("None", "[") \o ArrayItems(v.items, 1) \o SetWrite("None", "]")
      [] v.t = "Object" ->
            IF v.pairs = <<>>
            THEN SetWrite("None", "{}")
            ELSE SetWrite("None", "{ ") \o write_object(v.pairs) \o SetWrite("None", " }")
      [] OTHER -> SetWrite("Value", v.text)
\* the element separator written in the kind the element before left
ArrayItems_KeepsKind(xs, i) ==
    IF i > Len(xs) THEN <<>>
    ELSE (IF i # 1 THEN CallWriteOf(", ") ELSE <<>>)
         \o write_value(xs[i]) \o ArrayItems(xs, i + 1)

\* the loop of write_value over array.iter().enumerate(), from index i (1-based)
ArrayItems(xs, i) ==
    IF i > Len(xs) THEN <<>>
    ELSE (IF i # 1 THEN SetWrite("None", ", ") ELSE <<>>)
         \o write_value(xs[i]) \o ArrayItems(xs, i + 1)
\* a separator before every pair, the first included
PairSeparator_Always(i) == CallWriteOf(" ")
\* a separator written after set_kind(None), as the other delimiters are
PairSeparator_SetsNone(i) == IF i # 1 THEN SetWrite("None", " ") ELSE <<>>

\* the separator write_object writes before the pair of 1-based index i
PairSeparator(i) == IF i # 1 THEN CallWriteOf(" ") ELSE <<>>
\* the loop of write_object over object.iter().enumerate(), from index i (1-based)
ObjectPairs(ps, i) ==
    IF i > Len(ps) THEN <<>>
    ELSE PairSeparator(i)
         \o SetWrite("Key", ps[i].key) \o SetWrite("None", ": ")
         \o write_value(ps[i].value) \o ObjectPairs(ps, i + 1)
write_object(ps) == ObjectPairs(ps, 1)

\* whether write_line renders the parsed line (else it is written unchanged)
Structured(v) ==
    \/ v.t = "Object" /\ v.pairs # <<>>
    \/ v.t = "Array" /\ v.items # <<>>

\* the newline written in the kind the line ended with
Newline_KeepsKind == CallWriteOf("\n")

\* the newline write_line ends with
Newline == SetWrite("None", "\n")

\* write_line rendering every object and array, the empty ones included
write_line_NoEmptyCheck(l) ==
    LET v == from_str(l)
    IN  (IF v.t = "Object" THEN write_object(v.pairs)
         ELSE IF v.t = "Array" THEN write_value(v)
         ELSE CallWriteOf(LineText(l)))
        \o Newline

\* write_line starting the line with the newline
write_line_NewlineFirst(l) ==
    LET v == from_str(l)
    IN  Newline
        \o (IF v.t = "Object" /\ v.pairs # <<>> THEN write_object(v.pairs)
            ELSE IF v.t = "Array" /\ v.items # <<>> THEN write_value(v)
            ELSE CallWriteOf(LineText(l)))

write_line(l) ==
    LET v == from_str(l)
    IN  (IF v.t = "Object" /\ v.pairs # <<>> THEN write_object(v.pairs)
         ELSE IF v.t = "Array" /\ v.items # <<>> THEN write_value(v)
         ELSE CallWriteOf(LineText(l)))
        \o Newline

(***************************************************************************)
(* The input lines of the model                                            *)
(***************************************************************************)
TLex(x)   == [t |-> "lex", lex |-> x]
TArr(xs)  == [t |-> "arr", items |-> xs]
TObj(ps)  == [t |-> "obj", pairs |-> ps]

RECURSIVE TreesN(_), ItemSeqs(_), PairSeqs(_)
\* the documents of exactly n nodes
TreesN(n) ==
    IF n = 0 THEN {}
    ELSE (IF n = 1 THEN {TLex(x) : x \in ScalarLex} ELSE {})
         \cup {TArr(xs) : xs \in ItemSeqs(n - 1)}
         \cup {TObj(ps) : ps \in PairSeqs(n - 1)}
ItemSeqs(m) ==
    IF m = 0 THEN {<<>>}
    ELSE UNION {{<<x>> \o xs : x \in TreesN(j), xs \in ItemSeqs(m - j)} : j \in 1..m}
PairSeqs(m) ==
    IF m = 0 THEN {<<>>}
    ELSE UNION {{<<<<k, x>>>> \o ps : k \in KeyLex, x \in TreesN(j), ps \in PairSeqs(m - j)}
                : j \in 1..m}

RECURSIVE Tokens(_), ItemTokens(_, _), PairTokens(_, _)
\* the compact JSON text of a document, as lexemes
Tokens(x) ==
    CASE x.t = "lex" -> <<x.lex>>
      [] x.t = "arr" -> <<"[">> \o ItemTokens(x.items, 1) \o <<"]">>
      [] x.t = "obj" -> <<"{">> \o PairTokens(x.pairs, 1) \o <<"}">>
ItemTokens(xs, i) ==
    IF i > Len(xs) THEN <<>>
    ELSE (IF i # 1 THEN <<",">> ELSE <<>>) \o Tokens(xs[i]) \o ItemTokens(xs, i + 1)
PairTokens(ps, i) ==
    IF i > Len(ps) THEN <<>>
    ELSE (IF i # 1 THEN <<",">> ELSE <<>>)
         \o <<ps[i][1], ":">> \o Tokens(ps[i][2]) \o PairTokens(ps, i + 1)

\* deeper documents, after tests::test_color and tests::test_collections
DeepTrees ==
    { TObj(<< <<"\"k\"", TLex("1e2")>>, <<"\"\"", TLex("\"v\"")>>,
              <<"\"k\"", TArr(<<TLex("1e2")>>)>>,
              <<"\"v\"", TObj(<< <<"\"k\"", TLex("\"v\"")>> >>)>> >>),
      TObj(<< <<"\"k\"", TObj(<< <<"\"\"", TLex("\"\"")>>, <<"\"k\"", TLex("1e2")>>,
                                 <<"\"v\"", TArr(<<>>)>> >>)>>,
              <<"\"v\"", TLex("\"\"")>> >>),
      TArr(<< TArr(<<TLex("\"v\"")>>), TObj(<< <<"\"k\"", TLex("\"v\"")>> >>),
              TObj(<< <<"\"k\"", TObj(<<>>)>>, <<"\"v\"", TLex("\"\"")>> >>) >>) }

\* lines that are no compact JSON text: not JSON, whitespace, trailing text
OtherLines ==
    { <<>>, <<"text">>, <<"0">>, <<"null">>,
      <<"{", " ", "}">>, <<"[", " ", "]">>,
      <<"{", "\"k\"", ":", "1e2", "}", "x">>,
      <<"[", "1e2", "]", "[", "]">>,
      <<"[", "1e2", ",", "]">>,
      <<"{", "\"k\"", ":", "}">>,
      <<"{", "\"k\"", "}">>,
      <<"[", "\"v\"">>,
      <<" ", "[", " ", "\"v\"", " ", ",", "true", "]", " ">>,
      <<"{", " ", "\"k\"", " ", ":", " ", "0", " ", "}">> }

Lines ==
    {Tokens(x) : x \in UNION {TreesN(n) : n \in 1..MaxNodes} \cup DeepTrees}
    \cup OtherLines

(***************************************************************************)
(* Spec: main                                                              *)
(***************************************************************************)
Init ==
    /\ kind = new.kind
    /\ deferred = new.deferred
    /\ applied = "None"
    /\ out = <<>>
    /\ pc = "start"
    /\ line = <<>>
    /\ calls = <<>>
    /\ nlines = 0
    /\ stdinTty \in BOOLEAN
    /\ stdoutTty \in BOOLEAN

\* the usage printed whatever stdout is
MainUsage_AlwaysHelp ==
    /\ pc = "start"
    /\ stdinTty
    /\ \/ /\ out' = Append(out, Ev("help", "None", ""))
          /\ pc' = "exit1"
       \/ /\ out' = Append(out, Ev("err", "None", ""))
          /\ pc' = "failed"
    /\ UNCHANGED <<kind, deferred, applied, line, calls, nlines, stdinTty, stdoutTty>>

\* main, lines 21-26: stdin is a terminal
MainUsage ==
    /\ pc = "start"
    /\ stdinTty
    /\ \/ /\ stdoutTty
          /\ out' = Append(out, Ev("help", "None", ""))
          /\ pc' = "exit1"
       \/ /\ stdoutTty
          /\ out' = Append(out, Ev("err", "None", ""))
          /\ pc' = "failed"
       \/ /\ ~stdoutTty
          /\ out' = out
          /\ pc' = "exit1"
    /\ UNCHANGED <<kind, deferred, applied, line, calls, nlines, stdinTty, stdoutTty>>

\* main, lines 28-33: stdout is no terminal, io::copy
MainCopy ==
    /\ pc = "start"
    /\ ~stdinTty /\ ~stdoutTty
    /\ pc' = "copy"
    /\ UNCHANGED <<kind, deferred, applied, out, line, calls, nlines, stdinTty, stdoutTty>>

\* io::copy moves the next line of the input to the output
CopyLine ==
    /\ pc = "copy"
    /\ nlines < MaxLines
    /\ \E l \in Lines :
          /\ line' = l
          /\ out' = <<Ev("copy", "None", LineText(l) \o "\n")>>
    /\ nlines' = nlines + 1
    /\ pc' = "copied"
    /\ UNCHANGED <<kind, deferred, applied, calls, stdinTty, stdoutTty>>

\* io::copy goes on with the rest of the input (the log is kept per line)
CopyNext ==
    /\ pc = "copied"
    /\ pc' = "copy"
    /\ out' = <<>>
    /\ line' = <<>>
    /\ UNCHANGED <<kind, deferred, applied, calls, nlines, stdinTty, stdoutTty>>

\* io::copy ends at the end of the input (Ok) or fails
CopyEnd ==
    /\ pc = "copy"
    /\ pc' \in {"done", "failed"}
    /\ UNCHANGED <<kind, deferred, applied, out, line, calls, nlines, stdinTty, stdoutTty>>

\* the writer made without looking at stdout
MainWriter_NoStdoutCheck ==
    /\ pc = "start"
    /\ ~stdinTty
    /\ kind' = new.kind
    /\ deferred' = new.deferred
    /\ pc' = "read"
    /\ UNCHANGED <<applied, out, line, calls, nlines, stdinTty, stdoutTty>>

\* main, lines 35-36: the writer is made
MainWriter ==
    /\ pc = "start"
    /\ ~stdinTty /\ stdoutTty
    /\ kind' = new.kind
    /\ deferred' = new.deferred
    /\ pc' = "read"
    /\ UNCHANGED <<applied, out, line, calls, nlines, stdinTty, stdoutTty>>

\* main, lines 38-39: the next line is read and write_line is entered
ReadLine ==
    /\ pc = "read"
    /\ nlines < MaxLines
    /\ \E l \in Lines :
          /\ line' = l
          /\ calls' = write_line(l)
          /\ out' = <<Ev("line", applied, LineText(l))>>
    /\ nlines' = nlines + 1
    /\ pc' = "line"
    /\ UNCHANGED <<kind, deferred, applied, stdinTty, stdoutTty>>

\* main, lines 38-42: the input ends (Ok) or reading it fails (line?)
ReadEnd ==
    /\ pc = "read"
    /\ pc' \in {"done", "failed"}
    /\ UNCHANGED <<kind, deferred, applied, out, line, calls, nlines, stdinTty, stdoutTty>>

\* a result that is dropped instead of returned
Propagate_Ignored(res, rest) == IF rest = <<>> THEN "eol" ELSE "line"

\* the ? operator on the result of a writer call: where main goes next
Propagate(res, rest) ==
    IF res = "err" THEN "failed"
    ELSE IF rest = <<>> THEN "eol" ELSE "line"

\* main, line 38: write_line returned Ok and the loop goes on (the log is
\* kept per line)
LoopNext ==
    /\ pc = "eol"
    /\ pc' = "read"
    /\ out' = <<>>
    /\ line' = <<>>
    /\ UNCHANGED <<kind, deferred, applied, calls, nlines, stdinTty, stdoutTty>>

\* write_line makes its next call, a set_kind
CallSetKind ==
    /\ pc = "line"
    /\ calls # <<>>
    /\ Head(calls).op = "set_kind"
    /\ DoSetKind(Head(calls).arg)
    /\ calls' = Tail(calls)
    /\ UNCHANGED <<pc, line, nlines, stdinTty, stdoutTty>>

\* write_line makes its next call, a write; an error ends main
CallWrite ==
    /\ pc = "line"
    /\ calls # <<>>
    /\ Head(calls).op = "write"
    /\ \E f \in Failures(Writer, Head(calls).arg) :
          /\ DoWrite(Head(calls).arg, f)
          /\ pc' = Propagate(write(Writer, applied, Head(calls).arg, f).res, Tail(calls))
    /\ calls' = Tail(calls)
    /\ UNCHANGED <<line, nlines, stdinTty, stdoutTty>>

Next ==
    \/ MainUsage
    \/ MainCopy
    \/ CopyLine
    \/ CopyNext
    \/ CopyEnd
    \/ MainWriter
    \/ ReadLine
    \/ ReadEnd
    \/ LoopNext
    \/ CallSetKind
    \/ CallWrite

Spec == Init /\ [][Next]_vars

(***************************************************************************)
(* Reading the log                                                         *)
(***************************************************************************)
\* the last entry before i whose ev is in evs, 0 if there is none
RECURSIVE LastBefore(_, _, _)
LastBefore(log, i, evs) ==
    IF i <= 1 THEN 0
    ELSE IF log[i - 1].ev \in evs THEN i - 1
    ELSE LastBefore(log, i - 1, evs)

\* the kind whose control sequence was last applied on the sink before entry i
AppliedBefore(log, i) ==
    LET j == LastBefore(log, i, {"color", "line"})
    IN  IF j = 0 THEN "None" ELSE log[j].kind

\* the kind most recently requested by set_kind before entry i
RequestedBefore(log, i) ==
    LET j == LastBefore(log, i, {"set_kind"})
    IN  IF j = 0 THEN "None" ELSE log[j].kind

\* the write call at entry i emitted a control sequence / failed to emit it
EmitsColor(log, i)  == i < Len(log) /\ log[i + 1].ev = "color"
ColorFailed(log, i) == i < Len(log) /\ log[i + 1].ev = "err" /\ log[i + 1].text = "color"

\* the write call at entry i got its text onto the sink; the colour applied meanwhile
HasText(log, i) ==
    \/ i + 1 <= Len(log) /\ log[i + 1].ev = "text"
    \/ i + 2 <= Len(log) /\ log[i + 1].ev = "color" /\ log[i + 2].ev = "text"
TextKind(log, i) == IF log[i + 1].ev = "text" THEN log[i + 1].kind ELSE log[i + 2].kind

IsWrite(log, i)         == log[i].ev = "write"
IsNonEmptyWrite(log, i) == log[i].ev = "write" /\ log[i].text # ""

\* the bytes the sink received
RECURSIVE Bytes(_)
Bytes(log) ==
    IF log = <<>> THEN ""
    ELSE (IF Head(log).ev = "text" THEN Head(log).text ELSE "") \o Bytes(Tail(log))

\* the call that a step appended to the log, if it appended one
Called(e) == Len(out') > Len(out) /\ out'[Len(out) + 1].ev = e

(***************************************************************************)
(* Claims                                                                  *)
(***************************************************************************)

\* C1: a non-empty write emits a control sequence before its text if and only
\* if the kind requested for it differs from the kind whose control sequence
\* was last emitted to the sink (initially None).  The code emits a redundant
\* one when a kind change is undone before any text is written.
C1_EmitIffKindDiffers ==
    \A i \in 1..Len(out) :
        (IsNonEmptyWrite(out, i) /\ HasText(out, i))
            => (EmitsColor(out, i) <=> out[i].kind # AppliedBefore(out, i))

\* C2: every text reaches the sink while the colour applied there is that of
\* the kind most recently requested by set_kind, zero-length writes (with or
\* without their own set_kind) notwithstanding.
C2_TextInRequestedColour ==
    \A i \in 1..Len(out) :
        out[i].ev = "text" => out[i].kind = RequestedBefore(out, i)

\* a zero-length write left a kind change pending, the kind was changed again
\* and the next text was written after the control sequence then due
C2_Witness ==
    \E i \in 1..Len(out) : \E j \in (i + 1)..Len(out) :
        /\ IsWrite(out, i) /\ out[i].text = ""
        /\ out[i].kind # AppliedBefore(out, i)
        /\ IsNonEmptyWrite(out, j) /\ out[j].kind # out[i].kind
        /\ \A m \in (i + 1)..(j - 1) : out[m].ev \in {"set_kind", "write"}
        /\ EmitsColor(out, j) /\ HasText(out, j)

\* C3: write("") is a no-op: no sink operation, success, kind and deferred
\* (and the colour on the sink) unchanged.
C3_EmptyWriteNoOp ==
    [][(Called("write") /\ out'[Len(out) + 1].text = "")
        => /\ out' = Append(out, out'[Len(out) + 1])
           /\ kind' = kind /\ deferred' = deferred /\ applied' = applied]_vars

\* a zero-length write was made while a kind change was pending
C3_Witness ==
    /\ out # <<>>
    /\ IsWrite(out, Len(out)) /\ out[Len(out)].text = ""
    /\ deferred /\ kind # applied

\* set_kind(k).write(a); set_kind(k).write(b) at entries i and j of the log,
\* a and b not empty, the first write returning Ok
SameKindTwice(log, i, j) ==
    /\ i + 1 < j /\ j < Len(log)
    /\ log[i].ev = "set_kind" /\ IsNonEmptyWrite(log, i + 1)
    /\ log[j].ev = "set_kind" /\ log[j].kind = log[i].kind
    /\ IsNonEmptyWrite(log, j + 1)
    /\ \A m \in (i + 2)..(j - 1) : ~IsCall(log[m])
    /\ log[j - 1].ev = "text"

\* C4: writing the same kind twice in a row emits one control sequence, not
\* two: none before the second text, and exactly one before the first when
\* the kind differs from the one last applied.
C4_SameKindTwiceOneColor ==
    \A i \in 1..Len(out) : \A j \in {i + 3, i + 4} :
        SameKindTwice(out, i, j)
            => /\ ~EmitsColor(out, j + 1) /\ ~ColorFailed(out, j + 1)
               /\ out[i].kind # AppliedBefore(out, i)
                    => /\ j = i + 4
                       /\ out[i + 2] = Ev("color", out[i].kind, ColorOf(out[i].kind))

\* both writes were made, from a writer on which another colour was applied
C4_Witness ==
    \E i \in 1..Len(out) : \E j \in {i + 3, i + 4} :
        /\ SameKindTwice(out, i, j)
        /\ HasText(out, j + 1)
        /\ AppliedBefore(out, i) \notin {"None", out[i].kind}

\* C5: set_kind only records the kind: it makes no sink operation.
C5_SetKindNoOutput ==
    [][Called("set_kind")
        => /\ out' = Append(out, out'[Len(out) + 1])
           /\ applied' = applied]_vars

\* set_kind was called with a kind other than the one applied on the sink
C5_Witness ==
    /\ out # <<>>
    /\ out[Len(out)].ev = "set_kind"
    /\ out[Len(out)].kind # applied
    /\ \E i \in 1..Len(out) : out[i].ev = "text"

\* the lines write_line writes unchanged: no JSON document, an empty object,
\* an empty array or a scalar
RawLine(l) ==
    LET v == from_str(l)
    IN  \/ v.t \in {"Err", "String", "Scalar"}
        \/ v.t = "Object" /\ Len(v.pairs) = 0
        \/ v.t = "Array" /\ Len(v.items) = 0

\* C6: a RAW line is written as its own bytes and a newline, in kind None
\* and without any control sequence, whatever lines came before.
C6_RawLineUnchanged ==
    (pc = "eol" /\ RawLine(line))
        => /\ Bytes(out) = LineText(line) \o "\n"
           /\ \A i \in 1..Len(out) :
                 /\ out[i].ev # "color"
                 /\ out[i].ev \in {"write", "text"} => out[i].kind = "None"

\* a second line, an empty object with a blank in it, was written
C6_Witness ==
    /\ pc = "eol" /\ nlines >= 2
    /\ RawLine(line) /\ from_str(line).t = "Object" /\ Len(line) > 2

\* the reference rendering of a value
RECURSIVE RefValue(_), RefItems(_, _), RefPairs(_, _)
RefValue(v) ==
    IF v.t = "String" THEN v.s
    ELSE IF v.t = "Scalar" THEN v.text
    ELSE IF v.t = "Array" THEN "[" \o RefItems(v.items, Len(v.items)) \o "]"
    ELSE IF Len(v.pairs) = 0 THEN "{}"
    ELSE "{ " \o RefPairs(v.pairs, Len(v.pairs)) \o " }"
\* the first n elements joined by ", "
RefItems(xs, n) ==
    IF n = 0 THEN ""
    ELSE IF n = 1 THEN RefValue(xs[1])
    ELSE RefItems(xs, n - 1) \o ", " \o RefValue(xs[n])
\* the first n pairs "key: value" joined by " "
RefPairs(ps, n) ==
    IF n = 0 THEN ""
    ELSE IF n = 1 THEN ps[1].key \o ": " \o RefValue(ps[1].value)
    ELSE RefPairs(ps, n - 1) \o " " \o ps[n].key \o ": " \o RefValue(ps[n].value)
RefLine(v) ==
    IF v.t = "Object" THEN RefPairs(v.pairs, Len(v.pairs)) ELSE RefValue(v)

\* C7: the bytes written for a non-empty top-level object or array are the
\* reference rendering and a newline.
C7_StructuredRendering ==
    (pc = "eol" /\ ~RawLine(line))
        => Bytes(out) = RefLine(from_str(line)) \o "\n"

\* the line {"k":{"":"","k":1e2,"v":[]},"v":""} was written
C7_Witness ==
    /\ pc = "eol"
    /\ ~RawLine(line)
    /\ Bytes(out) = "k: { :  k: 100.0 v: [] } v: \n"

\* the write of the space between two pairs of an object
IsSeparator(log, i) == IsWrite(log, i) /\ log[i].text = " "

\* C8, as claimed: the space between two pairs is written with kind None,
\* its byte output while the sink is reset.
C8_SeparatorKindNone ==
    \A i \in 1..Len(out) :
        (IsSeparator(out, i) /\ HasText(out, i))
            => out[i].kind = "None" /\ TextKind(out, i) = "None"

\* C8, amended: the space is written without a set_kind, in the kind of the
\* last write of the preceding value: Value after a number, boolean or null,
\* String after a string (also an empty one), None only after an array or
\* an object.
C8_SeparatorKeepsKind ==
    \A i \in 1..Len(out) :
        IsSeparator(out, i)
            => LET p == LastBefore(out, i, {"write"})
               IN  /\ p > 0
                   /\ out[i - 1].ev # "set_kind"
                   /\ out[i].kind = out[p].kind
                   /\ out[p].kind \in {"None", "Value", "String"}
                   /\ out[p].kind = "None" <=> out[p].text \in {"]", " }", "{}"}
                   /\ HasText(out, i) => TextKind(out, i) = out[p].kind

\* a line was written with separators after a number, after an empty string
\* and after an array or object
C8_Witness ==
    /\ pc = "eol"
    /\ \E i \in 1..Len(out) : IsSeparator(out, i) /\ TextKind(out, i) = "Value"
    /\ \E i \in 1..Len(out) :
          /\ IsSeparator(out, i) /\ TextKind(out, i) = "String"
          /\ out[LastBefore(out, i, {"write"})].text = ""
    /\ \E i \in 1..Len(out) : IsSeparator(out, i) /\ TextKind(out, i) = "None"

\* the writer and the sink between two lines
AtRest == kind = "None" /\ ~deferred /\ applied = "None"

\* C9: when write_line returns Ok, a newline written in kind None on a reset
\* sink was its last sink operation and the writer is at kind None with
\* nothing pending; so every line starts with the writer in that state.
C9_LineEndsReset ==
    /\ pc = "eol"
         => /\ AtRest
            /\ Len(out) >= 2
            /\ out[Len(out)] = Ev("text", "None", "\n")
            /\ out[LastBefore(out, Len(out), {"write"})] = Ev("write", "None", "\n")
    /\ (pc = "read" \/ (pc = "line" /\ Len(out) = 1)) => AtRest

\* a second line ended in a coloured value, the newline needing the reset
C9_Witness ==
    /\ pc = "eol" /\ nlines >= 2
    /\ Len(out) >= 3
    /\ out[Len(out) - 1] = Ev("color", "None", "reset")
    /\ \E i \in 1..Len(out) : out[i].ev = "text" /\ out[i].kind = "String"

\* a sink operation of the log failed
Failed(log) == \E i \in 1..Len(log) : log[i].ev = "err"

\* C10: a failed sink operation ends write_line with the error: it is the
\* last sink operation of the line (no newline follows) and main takes no
\* further step, so no further line is processed.
C10_ErrorAborts ==
    [][/\ pc # "failed"
       /\ Failed(out')
            => /\ pc' = "failed"
               /\ out'[Len(out')].ev = "err"
               /\ \A i \in 1..Len(out') : out'[i] # Ev("text", "None", "\n")
               /\ nlines' = nlines]_vars

\* a sink operation failed in the middle of a line, with input left to read
C10_Witness ==
    /\ pc = "failed"
    /\ Failed(out)
    /\ Len(calls) > 2
    /\ nlines < MaxLines
    /\ \E i \in 1..Len(out) : out[i].ev = "text"

\* the entries of the log made by write_line and the ColoredWriter
CoreEvents == {"line", "set_kind", "write", "color", "text"}

\* main is in its line loop or the log holds an entry of the core
CoreInvoked ==
    \/ pc \in {"read", "line", "eol"}
    \/ \E i \in 1..Len(out) : out[i].ev \in CoreEvents

\* C11, as claimed: when stdout is no terminal the core is never invoked and
\* main copies the input, whatever stdin is.
C11_CopyWheneverNotTty ==
    ~stdoutTty
        => /\ ~CoreInvoked
           /\ pc \in {"start", "copy", "copied", "done", "failed"}
           /\ pc = "copied" => out = <<Ev("copy", "None", LineText(line) \o "\n")>>

\* C11, amended: when stdout is no terminal the core is never invoked; when
\* stdin is no terminal either, what is written is the input as it is; when
\* stdin is a terminal main exits with status 1 and nothing is read or written.
C11_CopyWhenPiped ==
    ~stdoutTty
        => /\ ~CoreInvoked
           /\ ~stdinTty
                => /\ pc \in {"start", "copy", "copied", "done", "failed"}
                   /\ pc = "copied"
                        => out = <<Ev("copy", "None", LineText(line) \o "\n")>>
                   /\ pc # "copied" => out = <<>>
           /\ stdinTty
                => /\ pc \in {"start", "exit1"}
                   /\ out = <<>> /\ nlines = 0

\* a second line, a JSON object the core would render, was copied
C11_Witness ==
    /\ ~stdoutTty
    /\ pc = "copied" /\ nlines >= 2
    /\ ~RawLine(line) /\ from_str(line).t = "Object"
    /\ out[1].text = LineText(line) \o "\n"

\* C12, as claimed: when stdin is a terminal main shows the usage and exits
\* with a status other than 0, whatever stdout is, and nothing is read.
C12_UsageWheneverTty ==
    stdinTty
        => /\ ~CoreInvoked /\ nlines = 0
           /\ pc \in {"start", "exit1", "failed"}
           /\ pc = "exit1" => out = <<Ev("help", "None", "")>>

\* C12, amended: when stdin is a terminal main reads nothing, never invokes
\* the core and ends with a status other than 0; the usage is shown only
\* when stdout is a terminal too, and main ends with the error when printing
\* it fails.
C12_UsageWhenBothTty ==
    stdinTty
        => /\ ~CoreInvoked /\ nlines = 0
           /\ pc \in {"start", "exit1", "failed"}
           /\ (pc = "exit1" /\ stdoutTty) => out = <<Ev("help", "None", "")>>
           /\ pc = "failed" => stdoutTty /\ out = <<Ev("err", "None", "")>>
           /\ ~stdoutTty => out = <<>>

\* the usage was shown and main exited with status 1
C12_Witness ==
    /\ stdinTty /\ stdoutTty
    /\ pc = "exit1"
    /\ out = <<Ev("help", "None", "")>>

\* the control sequence the colour mapping gives each token kind
ControlOfKind ==
    [k \in TokenKind |->
        IF k = "Key" THEN "intense yellow"
        ELSE IF k = "Value" THEN "intense green"
        ELSE IF k = "String" THEN "intense cyan"
        ELSE "reset"]

\* C13: every control sequence is emitted by a write call and is the one of
\* the writer's kind at that call: intense yellow for Key, intense green for
\* Value, intense cyan for String, the reset for None.
C13_ControlOfCurrentKind ==
    \A i \in 1..Len(out) :
        out[i].ev = "color"
            => /\ i > 1 /\ IsNonEmptyWrite(out, i - 1)
               /\ out[i].kind = out[i - 1].kind
               /\ out[i].text = ControlOfKind[out[i - 1].kind]

\* a colour and, after it, the reset were emitted
C13_Witness ==
    \E i \in 1..Len(out) : \E j \in (i + 1)..Len(out) :
        /\ out[i].ev = "color" /\ out[i].kind = "String"
        /\ out[j].ev = "color" /\ out[j].kind = "None"

\* the texts of the structural delimiters and of the newline
Delimiters == {"[", ", ", "]", "{ ", " }", "{}", ": ", " ", "\n"}

\* a token with the colour it is to be shown in; an empty token shows nothing
Token(text, k) == IF text = "" THEN <<>> ELSE <<[text |-> text, kind |-> k]>>

\* the keys, strings and other scalars of a value in document order, each
\* with its colour
RECURSIVE ValueTokens(_), ItemsTokens(_, _), PairsTokens(_, _)
ValueTokens(v) ==
    IF v.t = "String" THEN Token(v.s, "String")
    ELSE IF v.t = "Scalar" THEN Token(v.text, "Value")
    ELSE IF v.t = "Array" THEN ItemsTokens(v.items, Len(v.items))
    ELSE PairsTokens(v.pairs, Len(v.pairs))
ItemsTokens(xs, n) ==
    IF n = 0 THEN <<>> ELSE ItemsTokens(xs, n - 1) \o ValueTokens(xs[n])
PairsTokens(ps, n) ==
    IF n = 0 THEN <<>>
    ELSE PairsTokens(ps, n - 1) \o Token(ps[n].key, "Key") \o ValueTokens(ps[n].value)

\* the texts the sink received that are no delimiters, each with the colour
\* applied on the sink meanwhile
RECURSIVE ShownTokens(_)
ShownTokens(log) ==
    IF log = <<>> THEN <<>>
    ELSE (IF Head(log).ev = "text" /\ Head(log).text \notin Delimiters
          THEN <<[text |-> Head(log).text, kind |-> Head(log).kind]>> ELSE <<>>)
         \o ShownTokens(Tail(log))

\* C14: in a rendered line every non-empty key is output in Key, every
\* non-empty string in String and every number, boolean or null in Value, at
\* any depth and whatever precedes it.
C14_TokensInTheirColour ==
    (pc = "eol" /\ ~RawLine(line))
        => ShownTokens(out) = ValueTokens(from_str(line))

\* a line with a nested object, an empty key or string, and a key, a string
\* and a number shown
C14_Witness ==
    /\ pc = "eol" /\ ~RawLine(line)
    /\ \E i \in 1..Len(out) : IsWrite(out, i) /\ out[i].text = "{ "
    /\ \E i \in 1..Len(out) : IsWrite(out, i) /\ out[i].text = "" /\ out[i].kind = "Key"
    /\ \A k \in {"Key", "String", "Value"} :
          \E i \in 1..Len(out) :
              out[i].ev = "text" /\ out[i].kind = k /\ out[i].text \notin Delimiters

\* the structural delimiters of arrays and objects
StructDelimiters == {"[", ", ", "]", "{ ", " }", "{}", ": "}

\* the number of ", " a value is to be rendered with: one before each array
\* element but the first
RECURSIVE Commas(_), CommasIn(_, _)
Commas(v) ==
    IF v.t = "Array"
    THEN (IF Len(v.items) > 1 THEN Len(v.items) - 1 ELSE 0) + CommasIn(v.items, Len(v.items))
    ELSE IF v.t = "Object"
    THEN CommasIn([i \in 1..Len(v.pairs) |-> v.pairs[i].value], Len(v.pairs))
    ELSE 0
CommasIn(xs, n) == IF n = 0 THEN 0 ELSE CommasIn(xs, n - 1) + Commas(xs[n])

\* C15: in a rendered line every structural delimiter is written in kind
\* None and output while the sink is reset, and there is one ", " for each
\* array element but the first.
C15_DelimitersReset ==
    /\ \A i \in 1..Len(out) :
          (out[i].ev \in {"write", "text"} /\ out[i].text \in StructDelimiters)
              => out[i].kind = "None"
    /\ (pc = "eol" /\ ~RawLine(line))
          => Cardinality({i \in 1..Len(out) : out[i] = Ev("text", "None", ", ")})
                = Commas(from_str(line))

\* a line was rendered with every structural delimiter in it
C15_Witness ==
    /\ pc = "eol" /\ ~RawLine(line)
    /\ \A d \in StructDelimiters :
          \E i \in 1..Len(out) : out[i].ev = "text" /\ out[i].text = d
    /\ \E i \in 1..Len(out) : out[i].ev = "text" /\ out[i].kind = "String"

\* the sink operations of a log
SinkEvents == {"color", "text", "err"}
HasSinkEvent(log) == \E i \in 1..Len(log) : log[i].ev \in SinkEvents

\* C16: lines are written in input order and never interleaved: a line is
\* read only when write_line has made every call of the line before, every
\* sink operation belongs to the line read last, and the newline is the last
\* sink operation of a line.
C16_LinesInOrder ==
    [][stdoutTty
        => /\ nlines' # nlines
                => /\ pc = "read" /\ calls = <<>> /\ out = <<>>
                   /\ nlines' = nlines + 1
                   /\ ~HasSinkEvent(out')
           /\ (HasSinkEvent(out') /\ out' # out /\ pc \in {"line", "eol"})
                => /\ pc = "line" /\ line' = line /\ nlines' = nlines
                   /\ Len(out') > Len(out)
                   /\ SubSeq(out', 1, Len(out)) = out
                   /\ out[1].ev = "line" /\ out[1].text = LineText(line)
           /\ pc' = "line"
                => \A i \in 1..Len(out') : out'[i] # Ev("text", "None", "\n")
           /\ pc' = "eol"
                => /\ calls' = <<>>
                   /\ out'[Len(out')] = Ev("text", "None", "\n")
                   /\ Cardinality({i \in 1..Len(out') : out'[i].ev = "text"
                                                       /\ out'[i].text = "\n"}) = 1
           /\ pc = "eol" => pc' = "read" /\ ~HasSinkEvent(out')]_vars

\* the second line of the input is being written, texts already on the sink
C16_Witness ==
    /\ pc = "line" /\ nlines = 2
    /\ Len(calls) >= 2
    /\ Cardinality({i \in 1..Len(out) : out[i].ev = "text"}) >= 3

\* the sink operations a sequence of writer calls makes on writer w and a
\* sink with colour a applied, when no operation fails
RECURSIVE SinkRun(_, _, _)
SinkRun(cs, w, a) ==
    IF cs = <<>> THEN <<>>
    ELSE IF Head(cs).op = "set_kind"
    THEN SinkRun(Tail(cs), set_kind(w, Head(cs).arg), a)
    ELSE LET r == write(w, a, Head(cs).arg, "ok")
         IN  r.events \o SinkRun(Tail(cs), r.w, r.applied)

\* what write_line(l) sends to the sink of a writer just made
LineOutput(l) == SinkRun(write_line(l), new, "None")

IsSinkEvent(e) == e.ev \in SinkEvents

\* C17: the texts and control sequences emitted for a line are those the
\* line gets on a new writer, whatever lines were written before it.
C17_OutputOfLineAlone ==
    pc = "eol" => SelectSeq(out, IsSinkEvent) = LineOutput(line)

\* a second line was written that begins with a control sequence
C17_Witness ==
    /\ pc = "eol" /\ nlines >= 2
    /\ Len(out) >= 4
    /\ out[4].ev = "color" /\ out[4].kind = "Key"

\* C18: whenever deferred is false, the writer's kind is the kind whose
\* control sequence was last applied on the sink (None if none ever was),
\* also after zero-length writes and failed sink operations.
C18_KindAppliedUnlessDeferred ==
    ~deferred => kind = AppliedBefore(out, Len(out) + 1)

\* nothing is pending on a coloured writer after a zero-length write and a
\* failed control sequence
C18_Witness ==
    /\ ~deferred /\ kind \notin {"None"}
    /\ \E i \in 1..Len(out) : out[i].ev = "err" /\ out[i].text = "color"
    /\ \E i \in 1..Len(out) : IsWrite(out, i) /\ out[i].text = ""

\* the number of entries of the log with ev = e
RECURSIVE Count(_, _)
Count(log, e) ==
    IF log = <<>> THEN 0
    ELSE (IF Head(log).ev = e THEN 1 ELSE 0) + Count(Tail(log), e)

RECURSIVE NonEmptyWrites(_)
NonEmptyWrites(log) ==
    IF log = <<>> THEN 0
    ELSE (IF Head(log).ev = "write" /\ Head(log).text # "" THEN 1 ELSE 0)
         + NonEmptyWrites(Tail(log))

\* C19: while the sink operations succeed, every control sequence is
\* followed at once by the non-empty text of the write call that emitted it;
\* no two control sequences are back to back and there are no more control
\* sequences than non-empty writes.
C19_ControlThenText ==
    ~Failed(out)
        => /\ \A i \in 1..Len(out) :
                 out[i].ev = "color"
                     => /\ i > 1 /\ i < Len(out)
                        /\ IsNonEmptyWrite(out, i - 1)
                        /\ out[i + 1] = Ev("text", out[i].kind, out[i - 1].text)
           /\ Count(out, "color") <= NonEmptyWrites(out)

\* two control sequences were emitted, and more kind changes were requested
\* than control sequences emitted
C19_Witness ==
    /\ ~Failed(out)
    /\ Count(out, "color") = 2
    /\ Count(out, "set_kind") > 2
    /\ \E i \in 1..Len(out) : IsWrite(out, i) /\ out[i].text = "" /\ out[i].kind = "Key"

====
